---- MODULE Spec2Model ----
(***************************************************************************)
(* A model of ocf_ml_metrics: the metric kernel, the segmenters, the       *)
(* large-error counter, the night filter, the baselines and the metrics    *)
(* aggregator compute_metrics.                                             *)
(*                                                                         *)
(* Strings that are used as dictionary keys are kept split at "/": a       *)
(* string is a non-empty sequence of "/"-free segments, so "Night/mae" is  *)
(* <<"Night", "mae">>, "" is <<"">> and "Night/" is <<"Night", "">>.       *)
(* Python's + on strings is StrCat below.                                  *)
(*                                                                         *)
(* Arrays are records [ndim, data]: a 0-d array (one element of a 1-D      *)
(* array, as predictions[i] yields) has ndim 0 and one datum, a 1-D array  *)
(* has ndim 1 and its elements in order, a 2-D array of shape (N, D) has   *)
(* ndim 2, its N rows in order and the field cols = D.                     *)
(*                                                                         *)
(* A finite float is the root-th root of num/den in lowest terms (root 1   *)
(* or 2) times 2^exp, NaN is its own kind; zero has exp 0.  The elements   *)
(* of an array are float64: its data, integers below 2^10 in magnitude,    *)
(* times 2^exp, exp being one for the whole array.  Sums and quotients of  *)
(* these are taken exactly; a product too small for a float64 is zero, as  *)
(* numpy yields it (underflow is ignored by default).                      *)
(***************************************************************************)
EXTENDS Integers, Sequences, FiniteSets, TLC

\* ------------------------------------------------------------------ bounds

\* Longest array handed to any operation.
MaxLen == 2

\* ------------------------------------------------------------- strings

Slash == <<"", "">>

Str(s) == <<s>>

\* Python a + b on two split strings.
StrCat(a, b) ==
    SubSeq(a, 1, Len(a) - 1) \o <<a[Len(a)] \o b[1]>> \o Tail(b)

\* key.startswith(prefix + "/")
StartsWithDir(key, prefix) ==
    /\ Len(key) > Len(prefix)
    /\ SubSeq(key, 1, Len(prefix)) = prefix

\* key has a path segment equal to seg that is followed by "/".
HasDir(key, seg) == \E i \in 1..(Len(key) - 1) : key[i] = seg

\* -------------------------------------------------------------- numbers

Abs(x) == IF x < 0 THEN -x ELSE x

RECURSIVE GCD(_, _)
GCD(a, b) == IF b = 0 THEN a ELSE GCD(b, a % b)

RECURSIVE SumSeq(_)
SumSeq(s) == IF s = <<>> THEN 0 ELSE Head(s) + SumSeq(Tail(s))

\* The largest r with r * r <= n.
ISqrt(n) == CHOOSE r \in 0..n : r * r <= n /\ (r + 1) * (r + 1) > n

IsSquare(n) == ISqrt(n) * ISqrt(n) = n

NaN == [kind |-> "nan", num |-> 0, den |-> 1, root |-> 1, exp |-> 0]

\* A 1-D array of floats, as np.mean(..., axis=0) yields.
Vector(items) == [kind |-> "ndarray", items |-> items]

\* The float num/den, for den > 0 and num >= 0 or root = 1.
Ratio(n, d) ==
    LET g == GCD(Abs(n), d)
    IN  [kind |-> "float", num |-> n \div g, den |-> d \div g, root |-> 1,
         exp |-> 0]

\* The float x times 2^e.
Scaled(x, e) ==
    IF x.kind = "nan" \/ x.num = 0 THEN x ELSE [x EXCEPT !.exp = @ + e]

\* Whether a float64 product of magnitude m * 2^e, 1 <= m < 2^20, is
\* rounded to zero: it is when below half the least subnormal, 2^-1075.
RoundsToZero(e) == e + 20 < -1075

IntVal(n) == [kind |-> "int", num |-> n, den |-> 1, root |-> 1]

\* np.sqrt of a float that is not negative and whose exp is even; NaN stays
\* NaN.
sqrt(x) ==
    IF x.kind = "nan" THEN NaN
    ELSE IF IsSquare(x.num) /\ IsSquare(x.den)
         THEN [kind |-> "float", num |-> ISqrt(x.num), den |-> ISqrt(x.den),
               root |-> 1, exp |-> x.exp \div 2]
         ELSE [kind |-> "float", num |-> x.num, den |-> x.den,
               root |-> 2, exp |-> x.exp \div 2]

\* np.sqrt of a float, or of each element of a 1-D array of floats.
np_sqrt(x) ==
    IF x.kind = "ndarray"
    THEN Vector([j \in 1..Len(x.items) |-> sqrt(x.items[j])])
    ELSE sqrt(x)

\* np.mean over all the elements of a sequence: NaN (and a warning, no
\* exception) for no elements.
np_mean(s) == IF s = <<>> THEN NaN ELSE Ratio(SumSeq(s), Len(s))

\* np.mean(input, axis=0) of a 2-D array: the mean of each column.
np_mean_axis0(input) ==
    Vector([j \in 1..input.cols |->
               Scaled(np_mean([i \in 1..Len(input.data) |-> input.data[i][j]]),
                      input.exp)])

\* --------------------------------------------------------------- arrays

Arr0(x) == [ndim |-> 0, data |-> <<x>>, exp |-> 0]

Arr1(s) == [ndim |-> 1, data |-> s, exp |-> 0]

Arr2(rows, cols) == [ndim |-> 2, data |-> rows, exp |-> 0, cols |-> cols]

\* The array a times 2^e.
AScaled(a, e) == [a EXCEPT !.exp = @ + e]

\* len(a): the length of the first axis.
ALen(a) == Len(a.data)

\* a.shape
Shape(a) ==
    IF a.ndim = 0 THEN <<>>
    ELSE IF a.ndim = 1 THEN <<Len(a.data)>>
    ELSE <<Len(a.data), a.cols>>

\* The array of a's shape and exp with every element c.
AFill(a, c) ==
    IF a.ndim = 2
    THEN [a EXCEPT !.data = [i \in 1..Len(a.data) |-> [j \in 1..a.cols |-> c]]]
    ELSE [a EXCEPT !.data = [i \in 1..Len(a.data) |-> c]]

\* a * b elementwise, for a and b of one shape; the exps add up.
np_multiply(a, b) ==
    IF a.ndim = 2
    THEN [a EXCEPT !.data = [i \in 1..Len(a.data) |->
                                [j \in 1..a.cols |-> a.data[i][j] * b.data[i][j]]],
                   !.exp = a.exp + b.exp]
    ELSE [a EXCEPT !.data = [i \in 1..Len(a.data) |-> a.data[i] * b.data[i]],
                   !.exp = a.exp + b.exp]

\* Every element of a, row by row.
RECURSIVE Concat(_)
Concat(rows) == IF rows = <<>> THEN <<>> ELSE Head(rows) \o Concat(Tail(rows))

Flat(a) == IF a.ndim = 2 THEN Concat(a.data) ELSE a.data

\* a[i], Python's index i counted from 0: an element of a 1-D array, a row
\* of a 2-D one.
AItem(a, i) ==
    AScaled(IF a.ndim = 2 THEN Arr1(a.data[i + 1]) ELSE Arr0(a.data[i + 1]),
            a.exp)

\* a[idx] for a sequence idx of 0-based indices (numpy's integer-array
\* indexing): the elements at idx, in idx's order.
ATake(a, idx) == [a EXCEPT !.data = [j \in 1..Len(idx) |-> a.data[idx[j] + 1]]]

\* a[mask] for a boolean mask as long as a: the elements where the mask is
\* TRUE, in a's order.
RECURSIVE MaskSeq(_, _)
MaskSeq(s, mask) ==
    IF s = <<>> THEN <<>>
    ELSE (IF Head(mask) THEN <<Head(s)>> ELSE <<>>) \o MaskSeq(Tail(s), Tail(mask))

AMask(a, mask) == [a EXCEPT !.data = MaskSeq(a.data, mask)]

\* Whether numpy can broadcast a against b: two arrays of at most one
\* axis, or two arrays of two axes; each pair of lengths equal or one of
\* them 1.
Broadcastable(a, b) ==
    /\ \/ ALen(a) = ALen(b)
       \/ ALen(a) = 1
       \/ ALen(b) = 1
    /\ (a.ndim = 2 /\ b.ndim = 2) =>
          \/ a.cols = b.cols
          \/ a.cols = 1
          \/ b.cols = 1

\* The length along an axis of the broadcast of lengths x and y.
BroadcastLen(x, y) == IF x = 1 THEN y ELSE x

\* a - b under numpy's broadcasting, for Broadcastable(a, b) of one exp.
np_subtract(a, b) ==
    LET n  == BroadcastLen(ALen(a), ALen(b))
        at(x, i) == IF ALen(x) = n THEN x.data[i] ELSE x.data[1]
    IN  IF a.ndim = 2 /\ b.ndim = 2
        THEN LET m == BroadcastLen(a.cols, b.cols)
                 el(x, i, j) == IF x.cols = m THEN at(x, i)[j] ELSE at(x, i)[1]
             IN  AScaled(Arr2([i \in 1..n |->
                                  [j \in 1..m |-> el(a, i, j) - el(b, i, j)]], m),
                         a.exp)
        ELSE [ndim |-> IF a.ndim > b.ndim THEN a.ndim ELSE b.ndim,
              data |-> [i \in 1..n |-> at(a, i) - at(b, i)],
              exp |-> a.exp]

\* The differences with their signs.
np_abs_Signed(a) == a

np_abs(a) ==
    IF a.ndim = 2
    THEN [a EXCEPT !.data = [i \in 1..Len(a.data) |->
                                [j \in 1..a.cols |-> Abs(a.data[i][j])]]]
    ELSE [a EXCEPT !.data = [i \in 1..Len(a.data) |-> Abs(a.data[i])]]

\* np.square(a): a square too small for a float64 is zero.
np_square(a) ==
    IF RoundsToZero(2 * a.exp)
    THEN [AFill(a, 0) EXCEPT !.exp = 0]
    ELSE np_multiply(a, a)

\* --------------------------------------------------- dictionaries (dict)

\* A dict is the sequence of its items [k, v] in insertion order, keys
\* distinct.

EmptyDict == <<>>

DictKeys(d) == [i \in 1..Len(d) |-> d[i].k]

KeySet(d) == {d[i].k : i \in 1..Len(d)}

DictHas(d, k) == \E i \in 1..Len(d) : d[i].k = k

DictGet(d, k) == d[CHOOSE i \in 1..Len(d) : d[i].k = k].v

\* d[k] = v: a present key keeps its place and takes the value, a new key
\* goes last.
DictSet(d, k, v) ==
    IF DictHas(d, k)
    THEN [i \in 1..Len(d) |-> IF d[i].k = k THEN [k |-> k, v |-> v] ELSE d[i]]
    ELSE Append(d, [k |-> k, v |-> v])

\* d after d.pop(k).
DictRemove(d, k) == SelectSeq(d, LAMBDA it : it.k # k)

\* d after d.update(e).
RECURSIVE DictUpdate(_, _)
DictUpdate(d, e) ==
    IF e = <<>> THEN d
    ELSE DictUpdate(DictSet(d, Head(e).k, Head(e).v), Tail(e))

\* A call's outcome: a returned value or a raised exception.
Return(v) == [kind |-> "return", value |-> v, exc |-> "none"]

Raise(e) == [kind |-> "raise", value |-> EmptyDict, exc |-> e]

\* ---------------------------------------------------------- common_metrics

\* _mean of common_metrics: np.mean over the first axis when predictions
\* has more than one axis, over every element otherwise.
common_metrics_mean(predictions, input) ==
    IF Len(Shape(predictions)) > 1
    THEN np_mean_axis0(input)
    ELSE Scaled(np_mean(Flat(input)), input.exp)

\* The dict common_metrics builds once predictions - target is defined.
common_metrics_dict(predictions, target, tag) ==
    LET diff == np_subtract(predictions, target)
        d1 == DictSet(EmptyDict, StrCat(tag, Str("mae")),
                      common_metrics_mean(predictions, np_abs(diff)))
    IN  DictSet(d1, StrCat(tag, Str("rmse")),
                np_sqrt(common_metrics_mean(predictions, np_square(diff))))

\* common_metrics(predictions, target, tag): numpy raises ValueError when
\* the operands cannot be broadcast together; nothing else raises.
common_metrics(predictions, target, tag) ==
    IF ~Broadcastable(predictions, target) THEN Raise("ValueError")
    ELSE Return(common_metrics_dict(predictions, target, tag))

\* ------------------------------------------------------------- datetimes

\* A datetime is the number of seconds since 2022-01-01 00:00:00 (2022 has
\* 365 days); a Timedelta is a number of seconds.

DaysBefore == <<0, 31, 59, 90, 120, 151, 181, 212, 243, 273, 304, 334>>

At(month, day, hour, minute) ==
    (DaysBefore[month] + day - 1) * 86400 + hour * 3600 + minute * 60

\* pd.Timestamp(d).hour
HourOf(d) == (d \div 3600) % 24

\* pd.Timestamp(d).month, for d in 2022
MonthOf(d) ==
    LET doy == d \div 86400
    IN  CHOOSE m \in 1..12 :
            /\ DaysBefore[m] <= doy
            /\ (m = 12 \/ doy < DaysBefore[m + 1])

\* pd.Timedelta.seconds: the seconds left once the whole days (floored, so
\* -1 day for a delta just below zero) are taken out.
TimedeltaSeconds(delta) == delta % 86400

\* The 0-based indices i, ascending, at which parts[i] is in sel:
\* [i for i, d in enumerate(datetimes) if part(d) in sel].
IndicesIn(parts, sel) ==
    SelectSeq([i \in 1..Len(parts) |-> i - 1], LAMBDA i : parts[i + 1] \in sel)

\* ------------------------------------------------------------ segmenters

\* Hour 8 in Night as well as in Morning.
DefaultHourSplit_Overlap ==
    << [k |-> "Night",     v |-> {21, 22, 23, 0, 1, 2, 3, 8}],
       [k |-> "Morning",   v |-> {4, 5, 6, 7, 8, 9}],
       [k |-> "Afternoon", v |-> {10, 11, 12, 13, 14, 15}],
       [k |-> "Evening",   v |-> {16, 17, 18, 19, 20}] >>

\* A split maps labels to selector sets, in the dict's order.
DefaultHourSplit ==
    << [k |-> "Night",     v |-> {21, 22, 23, 0, 1, 2, 3}],
       [k |-> "Morning",   v |-> {4, 5, 6, 7, 8, 9}],
       [k |-> "Afternoon", v |-> {10, 11, 12, 13, 14, 15}],
       [k |-> "Evening",   v |-> {16, 17, 18, 19, 20}] >>

DefaultYearSplit ==
    << [k |-> "Winter", v |-> {12, 1, 2}],
       [k |-> "Spring", v |-> {3, 4, 5}],
       [k |-> "Summer", v |-> {6, 7, 8}],
       [k |-> "Fall",   v |-> {9, 10, 11}] >>

\* Every bucket is scored, the empty ones too.
BucketScored_Always(split_dates) == TRUE

\* Whether a bucket with these split_dates is scored.
BucketScored(split_dates) == Len(split_dates) > 0

\* The loop shared by compute_metrics_part_of_day and _part_of_year, parts
\* being each sample's hour or month: for each label in order, the samples
\* whose part is in the label's set are scored by the kernel under the tag
\* label + "/".
RECURSIVE SplitMetrics(_, _, _, _, _)
SplitMetrics(predictions, target, parts, split, metrics) ==
    IF split = <<>> THEN metrics
    ELSE LET label == Head(split).k
             split_dates == IndicesIn(parts, Head(split).v)
             scored == common_metrics(ATake(predictions, split_dates),
                                      ATake(target, split_dates),
                                      StrCat(Str(label), Slash)).value
         IN  SplitMetrics(predictions, target, parts, Tail(split),
                          IF BucketScored(split_dates)
                          THEN DictUpdate(metrics, scored)
                          ELSE metrics)

compute_metrics_part_of_day(predictions, target, datetimes, hour_split) ==
    SplitMetrics(predictions, target,
                 [i \in 1..Len(datetimes) |-> HourOf(datetimes[i])],
                 hour_split, EmptyDict)

compute_metrics_part_of_year(predictions, target, datetimes, year_split) ==
    SplitMetrics(predictions, target,
                 [i \in 1..Len(datetimes) |-> MonthOf(datetimes[i])],
                 year_split, EmptyDict)

\* f"forecast_horizon_{time_delta.seconds // 60}_minutes/"
HorizonTag(time_delta) ==
    <<"forecast_horizon_" \o ToString(TimedeltaSeconds(time_delta) \div 60)
        \o "_minutes", "">>

\* The loop of compute_metrics_time_horizons from index i (1-based) on.
RECURSIVE TimeHorizonsFrom(_, _, _, _, _, _)
TimeHorizonsFrom(predictions, target, datetimes, start_time, i, metrics) ==
    IF i > Len(datetimes) THEN metrics
    ELSE LET time_delta == datetimes[i] - start_time[i]
             scored == common_metrics(AItem(predictions, i - 1),
                                      AItem(target, i - 1),
                                      HorizonTag(time_delta)).value
         IN  TimeHorizonsFrom(predictions, target, datetimes, start_time, i + 1,
                              DictUpdate(metrics, scored))

compute_metrics_time_horizons(predictions, target, datetimes, start_time) ==
    TimeHorizonsFrom(predictions, target, datetimes, start_time, 1, EmptyDict)

\* ------------------------------------------------------ count_large_errors

\* A Python number with an integral value: an int n, or the float n.0.
PyInt(n) == [n |-> n, isfloat |-> FALSE]

PyFloat(n) == [n |-> n, isfloat |-> TRUE]

\* f"{x}"
Format(x) == IF x.isfloat THEN ToString(x.n) \o ".0" ELSE ToString(x.n)

\* Sigma mode is let through as if it were implemented.
count_large_errors_check_SigmaSilent(threshold, sigma) ==
    IF threshold.n >= 0
    THEN (IF sigma.n < 0 THEN "ok" ELSE "AssertionError")
    ELSE "ok"

\* A threshold is accepted whatever sigma is.
count_large_errors_check_NoExclusion(threshold, sigma) ==
    IF threshold.n >= 0
    THEN "ok"
    ELSE IF sigma.n >= 0 THEN "NotImplementedError" ELSE "ok"

\* The checks that open count_large_errors: "ok" to go on, or the exception.
count_large_errors_check(threshold, sigma) ==
    IF threshold.n >= 0
    THEN (IF sigma.n < 0 THEN "ok" ELSE "AssertionError")
    ELSE IF sigma.n >= 0
         THEN (IF threshold.n < 0 THEN "NotImplementedError" ELSE "AssertionError")
         ELSE "ok"

count_large_errors_errors(predictions, target) ==
    np_abs(np_subtract(predictions, target))

\* An error equal to the threshold counts too.
count_large_errors_step_AtLeast(large_error_count, err, threshold) ==
    IF threshold.n >= 0 /\ err >= threshold.n
    THEN large_error_count + 1
    ELSE large_error_count

\* One turn of the counting loop.
count_large_errors_step(large_error_count, err, threshold) ==
    IF threshold.n >= 0 /\ err > threshold.n
    THEN large_error_count + 1
    ELSE large_error_count

RECURSIVE count_large_errors_loop(_, _, _)
count_large_errors_loop(errors, threshold, large_error_count) ==
    IF errors = <<>> THEN large_error_count
    ELSE count_large_errors_loop(Tail(errors), threshold,
             count_large_errors_step(large_error_count, Head(errors), threshold))

count_large_errors_key(threshold, sigma, tag) ==
    StrCat(tag,
           Str("large_error_count_"
               \o (IF threshold.n >= 0 THEN "threshold" ELSE "sigma") \o "_"
               \o (IF threshold.n >= 0 THEN Format(threshold) ELSE Format(sigma))))

count_large_errors(predictions, target, threshold, sigma, tag) ==
    LET check == count_large_errors_check(threshold, sigma)
    IN  IF check # "ok" THEN Raise(check)
        ELSE IF ~Broadcastable(predictions, target) THEN Raise("ValueError")
        ELSE Return(DictSet(EmptyDict,
                 count_large_errors_key(threshold, sigma, tag),
                 IntVal(count_large_errors_loop(
                     count_large_errors_errors(predictions, target).data,
                     threshold, 0))))

\* ------------------------------------------------------------- filter_night

\* pvlib's solar position is outside the repository: solpos gives the
\* elevation in degrees at each datetime for the call's latitude and
\* longitude.
get_solarposition(datetimes, solpos) ==
    [i \in 1..Len(datetimes) |-> solpos[datetimes[i]]]

elevation_mask_Below(elevation, sun_position_for_night) ==
    [i \in 1..Len(elevation) |-> elevation[i] < sun_position_for_night]

elevation_mask_Above(elevation, sun_position_for_night) ==
    [i \in 1..Len(elevation) |-> elevation[i] >= sun_position_for_night]

elevation_mask(elevation, sun_position_for_night) ==
    [i \in 1..Len(elevation) |-> elevation[i] <= sun_position_for_night]

\* The caller's arrays once filter_night has run, were it to filter them in
\* place.
CallerArrays_Filtered(a, day) ==
    [a EXCEPT !.predictions = day.predictions, !.target = day.target,
              !.datetimes = day.datetimes]

\* The caller's arrays once filter_night has run: indexing by a mask makes
\* new arrays and the assignments rebind filter_night's own names, so the
\* caller's arrays are as they were.
CallerArrays(a, day) == a

filter_night(predictions, target, datetimes, solpos, sun_position_for_night) ==
    LET mask == elevation_mask(get_solarposition(datetimes, solpos),
                               sun_position_for_night)
        keep == [i \in 1..Len(mask) |-> ~mask[i]]
    IN  [predictions |-> AMask(predictions, keep),
         target |-> AMask(target, keep),
         datetimes |-> MaskSeq(datetimes, keep)]

\* ------------------------------------------------------------ compute_metrics

\* thresholds is a list of numbers or one number.
ThresholdList(items) == [isList |-> TRUE, items |-> items]

ThresholdScalar(x) == [isList |-> FALSE, items |-> <<x>>]

\* metrics.update(count_large_errors(predictions, target, threshold=thresh))
\* for each thresh in order; sigma and tag keep their defaults.
RECURSIVE LargeErrorsOfList(_, _, _, _)
LargeErrorsOfList(predictions, target, items, metrics) ==
    IF items = <<>> THEN metrics
    ELSE LargeErrorsOfList(predictions, target, Tail(items),
             DictUpdate(metrics,
                 count_large_errors(predictions, target, Head(items),
                                    PyFloat(-1), Str("")).value))

\* Only a single number is counted for; a list is passed over.
LargeErrorsStage_ScalarOnly(predictions, target, thresholds, metrics) ==
    IF ~thresholds.isList /\ thresholds.items[1].n >= 0
    THEN LargeErrorsOfList(predictions, target, thresholds.items, metrics)
    ELSE metrics

\* The large-error stage of one pass.
LargeErrorsStage(predictions, target, thresholds, metrics) ==
    IF thresholds.isList
    THEN LargeErrorsOfList(predictions, target, thresholds.items, metrics)
    ELSE IF thresholds.items[1].n >= 0
         THEN LargeErrorsOfList(predictions, target, thresholds.items, metrics)
         ELSE metrics

\* One pass of compute_metrics: the kernel over everything, the two
\* calendar segmenters with their default splits, the horizons, the large
\* errors.
MetricsPass(predictions, target, datetimes, start_time, thresholds) ==
    LET m1 == common_metrics(predictions, target, Str("")).value
        m2 == DictUpdate(m1, compute_metrics_part_of_day(
                  predictions, target, datetimes, DefaultHourSplit))
        m3 == DictUpdate(m2, compute_metrics_part_of_year(
                  predictions, target, datetimes, DefaultYearSplit))
        m4 == DictUpdate(m3, compute_metrics_time_horizons(
                  predictions, target, datetimes, start_time))
    IN  LargeErrorsStage(predictions, target, thresholds, m4)

\* One turn of a re-keying loop: d[prefix + key] = d.pop(key).
RekeyStep(d, key, prefix) ==
    DictSet(DictRemove(d, key), StrCat(prefix, key), DictGet(d, key))

\* for key in list(d.keys()): d[prefix + key] = d.pop(key)
RECURSIVE RekeyLoop(_, _, _)
RekeyLoop(d, keys, prefix) ==
    IF keys = <<>> THEN d
    ELSE RekeyLoop(RekeyStep(d, Head(keys), prefix), Tail(keys), prefix)

Rekey(d, prefix) == RekeyLoop(d, DictKeys(d), prefix)

\* The prefix the night-filtered pass's keys get.
NoNightPrefix == <<"no_night", "">>

\* The tag joined to the keys without the "/" between them.
TagPrefix_NoSlash(tag) == tag

\* The tag left out of the prefix.
TagPrefix_Untagged(tag) == Slash

\* The prefix every key gets last.
TagPrefix(tag) == StrCat(tag, Slash)

\* The start times handed to the night-filtered pass's horizon segmenter.
DayStartTime(start_time, datetimes, solpos, sun_position_for_night) ==
    start_time

\* day_metrics of the night-filtered pass, before its keys are prefixed.
DayMetrics(predictions, target, datetimes, start_time, thresholds, solpos, sun_position_for_night) ==
    LET day == filter_night(predictions, target, datetimes, solpos,
                            sun_position_for_night)
    IN  MetricsPass(day.predictions, day.target, day.datetimes,
                    DayStartTime(start_time, datetimes, solpos,
                                 sun_position_for_night),
                    thresholds)

\* The whole of compute_metrics.
compute_metrics(predictions, target, datetimes, start_time, filter_by_night, tag, thresholds, solpos, sun_position_for_night) ==
    IF ~(/\ ALen(predictions) = ALen(target)
         /\ ALen(target) = Len(datetimes)
         /\ Len(datetimes) = Len(start_time))
    THEN Raise("AssertionError")
    ELSE LET metrics == MetricsPass(predictions, target, datetimes, start_time,
                                    thresholds)
             day_metrics == DayMetrics(predictions, target, datetimes,
                                       start_time, thresholds, solpos,
                                       sun_position_for_night)
             merged == IF filter_by_night
                       THEN DictUpdate(metrics, Rekey(day_metrics, NoNightPrefix))
                       ELSE metrics
         IN  Return(Rekey(merged, TagPrefix(tag)))

\* ---------------------------------------------------------------- baselines

\* np.zeros_like(a), np.ones_like(a): a's shape, every element 0 or 1.
np_zeros_like(a) == [AFill(a, 0) EXCEPT !.exp = 0]

np_ones_like(a) == [AFill(a, 1) EXCEPT !.exp = 0]

zero_baseline(predictions) == np_zeros_like(predictions)

\* The predictions themselves times max_capacity.
max_baseline_OfPredictions(predictions, max_capacity) ==
    np_multiply(predictions, AFill(predictions, max_capacity))

\* np.ones_like(predictions) * max_capacity, max_capacity a number.
max_baseline(predictions, max_capacity) ==
    np_multiply(np_ones_like(predictions),
                AFill(np_ones_like(predictions), max_capacity))

\* np.ones_like(predictions) * last_value, last_value a number.
last_value_persistence(predictions, last_value) ==
    np_multiply(np_ones_like(predictions),
                AFill(np_ones_like(predictions), last_value))

\* An exception object (not raised: a value like any other).
ExceptionObject(type) == [ndim |-> -1, data |-> <<>>, type |-> type]

last_day_persistence(predictions) ==
    Return(ExceptionObject("NotImplementedError"))

\* ------------------------------------------------------------------- state

\* pc: "call" when a call is about to run, "done" when it has ended, and
\*     inside count_large_errors and compute_metrics the statement the call
\*     is at; "merged" when evaluation has merged its two records;
\* op, args: the operation called and its arguments;
\* frame: the locals of the running call;
\* ret: the call's outcome.
VARIABLES pc, op, args, frame, ret

vars == <<pc, op, args, frame, ret>>

NoArgs == [none |-> TRUE]

\* Nothing bound yet.  bound: errors and large_error_count of
\* count_large_errors are set; metrics, day_metrics: the two dicts of
\* compute_metrics.
NoFrame ==
    [bound |-> FALSE, errors |-> <<>>, i |-> 0, large_error_count |-> 0,
     metrics |-> EmptyDict, day_metrics |-> EmptyDict,
     first |-> EmptyDict, other |-> EmptyDict, again |-> FALSE]

NoRet == [kind |-> "none", value |-> EmptyDict, exc |-> "none"]

\* -------------------------------------------------------------- input sets

\* Values of the arrays handed to the kernel and the counter directly.
KernelVals == 0..2

Arrays(vals) == {Arr1(s) : s \in UNION {[1..n -> vals] : n \in 0..MaxLen}}

\* Values and numbers of columns of the 2-D arrays handed to the kernel and
\* the baselines.
MatrixVals == {0, 1}

Cols == {1, 2}

Arrays2(vals) ==
    UNION { {Arr2(rows, cols) : rows \in [1..n -> [1..cols -> vals]]} :
            n \in 0..MaxLen, cols \in Cols }

\* Datetimes of the samples handed to the segmenters directly: hours in
\* each default part of the day but the evening, months in three seasons.
CalendarInstants ==
    {At(1, 1, 0, 0), At(1, 1, 8, 30), At(2, 28, 23, 59), At(6, 15, 12, 0),
     At(12, 31, 21, 0)}

\* Splits a caller passes: none (the default) or one of its own, whose
\* buckets overlap and do not cover every hour or month.
HourSplits ==
    { DefaultHourSplit,
      << [k |-> "Dark", v |-> {0, 23}], [k |-> "Early", v |-> {0, 8}],
         [k |-> "Never", v |-> {}] >> }

YearSplits ==
    { DefaultYearSplit,
      << [k |-> "Cold", v |-> {1, 2, 12}], [k |-> "January", v |-> {1}],
         [k |-> "Autumn", v |-> {10}] >> }

\* timestamp - start_time of the samples handed to the horizon segmenter
\* directly, in seconds: 5 min, 90 s, 30 min, a day and 5 min, -5 min.
HorizonDeltas == {300, 90, 1800, 86700, -300}

\* The samples of compute_metrics: a winter midnight or a summer noon,
\* forecast five or thirty minutes ahead.
Instants == {At(1, 1, 0, 0), At(6, 15, 12, 0)}

Horizons == {300, 1800}

PredVals == {0, 3}

TargetVals == {1}

Samples(instants, deltas) ==
    [p : PredVals, t : TargetVals, d : instants, h : deltas]

SampleSeqs(instants, deltas) ==
    UNION {[1..n -> Samples(instants, deltas)] : n \in 0..MaxLen}

Predictions(ss) == Arr1([i \in 1..Len(ss) |-> ss[i].p])

Target(ss) == Arr1([i \in 1..Len(ss) |-> ss[i].t])

Datetimes(ss) == [i \in 1..Len(ss) |-> ss[i].d]

StartTime(ss) == [i \in 1..Len(ss) |-> ss[i].d - ss[i].h]

\* The samples of filter_night called directly: the Instants and a winter
\* morning.
NightInstants == Instants \cup {At(1, 1, 8, 30)}

\* Elevations in degrees at the NightInstants, at two sites.
SolarPositions ==
    { (At(1, 1, 0, 0) :> -3) @@ (At(1, 1, 8, 30) :> 0) @@ (At(6, 15, 12, 0) :> 58),
      (At(1, 1, 0, 0) :> -5) @@ (At(1, 1, 8, 30) :> 4) @@ (At(6, 15, 12, 0) :> 0) }

\* sun_position_for_night of filter_night called directly.
NightLevels == {-5, 0, 10}

NightTargetVals == {1, 2}

\* sun_position_for_night: compute_metrics' default and the horizon.
SunPositions == {-5, 0}

\* tag: the default "", a tag that is the night prefix's own segment, and
\* "model/kw" as evaluation builds it.
Tags == {Str(""), Str("no_night"), <<"model", "kw">>}

ThresholdArgs ==
    { ThresholdScalar(PyInt(-1)), ThresholdScalar(PyInt(1)),
      ThresholdList(<<>>), ThresholdList(<<PyInt(0), PyInt(2)>>),
      ThresholdList(<<PyInt(1), PyInt(1)>>), ThresholdList(<<PyInt(-1)>>) }

\* thresholds of the calls of compute_metrics that are made twice.
RepeatedThresholds == {ThresholdList(<<PyInt(0), PyInt(2)>>)}

\* threshold and sigma of a direct call of count_large_errors: the default
\* -1.0 or a level.
ThresholdLevels == {PyFloat(-1), PyInt(0), PyInt(1)}

SigmaLevels == {PyFloat(-1), PyInt(0), PyInt(2)}

\* ------------------------------------------------------------------ actions

\* The arguments of a call of each operation.
\* Exponents of the arrays of small float64 handed to the kernel: 2^-500,
\* whose square is a float64, and 2^-600, whose square is not.
SmallExponents == {-500, -600}

CommonMetricsArgs ==
    [predictions : Arrays(KernelVals), target : Arrays(KernelVals)]
        \cup [predictions : Arrays2(MatrixVals), target : Arrays2(MatrixVals)]
        \cup { [predictions |-> AScaled(p, e), target |-> AScaled(t, e)] :
                 p \in Arrays(KernelVals), t \in Arrays(KernelVals),
                 e \in SmallExponents }

PartOfDayArgs ==
    { [predictions |-> Predictions(ss), target |-> Target(ss),
       datetimes |-> Datetimes(ss), split |-> split] :
      ss \in SampleSeqs(CalendarInstants, {300}), split \in HourSplits }

PartOfYearArgs ==
    { [predictions |-> Predictions(ss), target |-> Target(ss),
       datetimes |-> Datetimes(ss), split |-> split] :
      ss \in SampleSeqs(CalendarInstants, {300}), split \in YearSplits }

TimeHorizonsArgs ==
    { [predictions |-> Predictions(ss), target |-> Target(ss),
       datetimes |-> Datetimes(ss), start_time |-> StartTime(ss)] :
      ss \in SampleSeqs(Instants, HorizonDeltas) }

CountLargeErrorsArgs ==
    [predictions : Arrays(KernelVals), target : Arrays(KernelVals),
     threshold : ThresholdLevels, sigma : SigmaLevels]

\* compute_metrics is called with its arrays and thresholds; its other
\* arguments are drawn where the code first reads them, and hold their
\* defaults (filter_by_night=False, tag="", sun_position_for_night=-5) until
\* then.
ComputeMetricsArgs ==
    { [predictions |-> Predictions(ss), target |-> Target(ss),
       datetimes |-> Datetimes(ss), start_time |-> StartTime(ss),
       thresholds |-> thresholds,
       filter_by_night |-> FALSE, tag |-> Str(""),
       solpos |-> CHOOSE f \in SolarPositions : TRUE,
       sun_position_for_night |-> -5] :
      ss \in SampleSeqs(Instants, Horizons), thresholds \in ThresholdArgs }

\* A call of compute_metrics whose start_time is one short: the assert on
\* the lengths is all it gets to.
MisalignedArgs ==
    { [a EXCEPT !.start_time = SubSeq(@, 1, Len(@) - 1)] :
      a \in {a \in ComputeMetricsArgs :
                /\ Len(a.start_time) > 0
                /\ a.thresholds = ThresholdScalar(PyInt(-1))} }

\* max_capacity or last_value of a baseline (zero_baseline takes 0 and
\* does not read it).
BaselineLevels == {0, 2}

BaselineArgs(levels) ==
    [predictions : Arrays(KernelVals) \cup Arrays2(MatrixVals), level : levels]

LastDayPersistenceArgs == [predictions : Arrays(KernelVals)]

\* The pairs of tags of two records evaluation merges: "<model_name>/
\* <outturn_unit>" with "<model_name>/normalized" and with "zero_baseline/
\* <outturn_unit>", and two pairs more that compute_metrics takes as well,
\* a tag with the same tag followed by "/no_night", in both orders.
EvaluationTags ==
    { << <<"model", "kw">>, <<"model", "normalized">> >>,
      << <<"model", "kw">>, <<"zero_baseline", "kw">> >>,
      << <<"model">>, <<"model", "no_night">> >>,
      << <<"model", "no_night">>, <<"model">> >> }

\* Two calls of compute_metrics on the same samples under two different
\* tags, as evaluation makes them: night filtering on, a list of
\* thresholds.
EvaluationArgs ==
    { [predictions |-> Predictions(ss), target |-> Target(ss),
       datetimes |-> Datetimes(ss), start_time |-> StartTime(ss),
       thresholds |-> ThresholdList(<<PyInt(1)>>),
       solpos |-> solpos, sun_position_for_night |-> 0,
       filter_by_night |-> TRUE,
       tag |-> tags[1], model_tag |-> tags[1],
       baseline_tag |-> tags[2]] :
      ss \in SampleSeqs(Instants, {1800}), solpos \in SolarPositions,
      tags \in EvaluationTags }

NightSampleSeqs ==
    UNION {[1..n -> [p : PredVals, t : NightTargetVals, d : NightInstants]] :
           n \in 0..MaxLen}

FilterNightArgs ==
    { [predictions |-> Predictions(ss), target |-> Target(ss),
       datetimes |-> Datetimes(ss), solpos |-> solpos,
       sun_position_for_night |-> level] :
      ss \in NightSampleSeqs, solpos \in SolarPositions, level \in NightLevels }

\* A call of filter_night whose predictions are one longer than its
\* datetimes.
FilterNightMisalignedArgs ==
    { [a EXCEPT !.predictions = Arr1(Append(@.data, 0))] :
      a \in {a \in FilterNightArgs : a.sun_position_for_night = 0} }

\* A call is about to be made: any operation, any arguments.
Init ==
    /\ pc = "call"
    /\ \/ op = "common_metrics" /\ args \in CommonMetricsArgs
       \/ op = "compute_metrics_part_of_day" /\ args \in PartOfDayArgs
       \/ op = "compute_metrics_part_of_year" /\ args \in PartOfYearArgs
       \/ op = "compute_metrics_time_horizons" /\ args \in TimeHorizonsArgs
       \/ op = "count_large_errors" /\ args \in CountLargeErrorsArgs
       \/ op = "compute_metrics" /\ args \in ComputeMetricsArgs \cup MisalignedArgs
       \/ op = "evaluation" /\ args \in EvaluationArgs
       \/ op = "filter_night" /\ args \in FilterNightArgs \cup FilterNightMisalignedArgs
       \/ op = "zero_baseline" /\ args \in BaselineArgs({0})
       \/ op = "max_baseline" /\ args \in BaselineArgs(BaselineLevels)
       \/ op = "last_value_persistence" /\ args \in BaselineArgs(BaselineLevels)
       \/ op = "last_day_persistence" /\ args \in LastDayPersistenceArgs
    /\ frame = NoFrame
    /\ ret = NoRet

Run_common_metrics ==
    /\ pc = "call" /\ op = "common_metrics"
    /\ ret' = common_metrics(args.predictions, args.target, Str(""))
    /\ pc' = "done"
    /\ UNCHANGED <<op, args, frame>>

Run_compute_metrics_part_of_day ==
    /\ pc = "call" /\ op = "compute_metrics_part_of_day"
    /\ ret' = Return(compute_metrics_part_of_day(
                  args.predictions, args.target, args.datetimes, args.split))
    /\ pc' = "done"
    /\ UNCHANGED <<op, args, frame>>

Run_compute_metrics_part_of_year ==
    /\ pc = "call" /\ op = "compute_metrics_part_of_year"
    /\ ret' = Return(compute_metrics_part_of_year(
                  args.predictions, args.target, args.datetimes, args.split))
    /\ pc' = "done"
    /\ UNCHANGED <<op, args, frame>>

Run_compute_metrics_time_horizons ==
    /\ pc = "call" /\ op = "compute_metrics_time_horizons"
    /\ ret' = Return(compute_metrics_time_horizons(
                  args.predictions, args.target, args.datetimes, args.start_time))
    /\ pc' = "done"
    /\ UNCHANGED <<op, args, frame>>

\* count_large_errors runs statement by statement.  First its checks.
CountLargeErrors_Check ==
    /\ pc = "call" /\ op = "count_large_errors"
    /\ LET check == count_large_errors_check(args.threshold, args.sigma)
       IN  IF check = "ok"
           THEN pc' = "errors" /\ ret' = ret
           ELSE pc' = "done" /\ ret' = Raise(check)
    /\ UNCHANGED <<op, args, frame>>

\* errors = np.abs(predictions - target); large_error_count = 0
CountLargeErrors_Errors ==
    /\ pc = "errors"
    /\ IF Broadcastable(args.predictions, args.target)
       THEN /\ frame' = [frame EXCEPT
                           !.bound = TRUE,
                           !.errors = count_large_errors_errors(
                                          args.predictions, args.target).data,
                           !.i = 0,
                           !.large_error_count = 0]
            /\ pc' = "loop"
            /\ ret' = ret
       ELSE /\ frame' = frame
            /\ pc' = "done"
            /\ ret' = Raise("ValueError")
    /\ UNCHANGED <<op, args>>

\* One turn of for err in errors.
CountLargeErrors_Loop ==
    /\ pc = "loop"
    /\ frame.i < Len(frame.errors)
    /\ frame' = [frame EXCEPT
                   !.i = @ + 1,
                   !.large_error_count = count_large_errors_step(
                        @, frame.errors[frame.i + 1], args.threshold)]
    /\ UNCHANGED <<pc, op, args, ret>>

\* The loop is over: the dict is built and returned.
CountLargeErrors_Return ==
    /\ pc = "loop"
    /\ frame.i = Len(frame.errors)
    /\ ret' = Return(DictSet(EmptyDict,
                  count_large_errors_key(args.threshold, args.sigma, Str("")),
                  IntVal(frame.large_error_count)))
    /\ pc' = "done"
    /\ UNCHANGED <<op, args, frame>>

\* The call's tag, night filtering and site are the caller's: on a repeated
\* call, and on the calls evaluation makes.
ArgsGiven == frame.again \/ op = "evaluation"

\* compute_metrics runs stage by stage.  First the assert on the lengths
\* and the pass over every sample.
ComputeMetrics_Pass ==
    /\ pc = "call" /\ op \in {"compute_metrics", "evaluation"}
    /\ IF /\ ALen(args.predictions) = ALen(args.target)
          /\ ALen(args.target) = Len(args.datetimes)
          /\ Len(args.datetimes) = Len(args.start_time)
       THEN /\ frame' = [frame EXCEPT !.metrics =
                            MetricsPass(args.predictions, args.target,
                                        args.datetimes, args.start_time,
                                        args.thresholds)]
            /\ pc' = "night"
            /\ ret' = ret
       ELSE /\ frame' = frame
            /\ pc' = "done"
            /\ ret' = Raise("AssertionError")
    /\ UNCHANGED <<op, args>>

\* if filter_by_night: the pass over the samples filter_night keeps, at
\* the caller's site and night level.
ComputeMetrics_NightPass ==
    /\ pc = "night"
    /\ \E solpos \in SolarPositions, sun_position_for_night \in SunPositions :
          /\ ArgsGiven =>
                /\ args.filter_by_night
                /\ solpos = args.solpos
                /\ sun_position_for_night = args.sun_position_for_night
          /\ args' = [CallerArrays(args,
                          filter_night(args.predictions, args.target,
                                       args.datetimes, solpos,
                                       sun_position_for_night))
                        EXCEPT !.filter_by_night = TRUE,
                               !.solpos = solpos,
                               !.sun_position_for_night = sun_position_for_night]
          /\ frame' = [frame EXCEPT !.day_metrics =
                          DayMetrics(args.predictions, args.target,
                                     args.datetimes, args.start_time,
                                     args.thresholds, solpos,
                                     sun_position_for_night)]
    /\ pc' = "rekey_night"
    /\ UNCHANGED <<op, ret>>

\* not filter_by_night: on to the tag.
ComputeMetrics_SkipNight ==
    /\ pc = "night"
    /\ ArgsGiven => ~args.filter_by_night
    /\ pc' = "rekey_tag"
    /\ UNCHANGED <<op, args, frame, ret>>

\* The no_night/ loop, and metrics.update(day_metrics).
ComputeMetrics_RekeyNight ==
    /\ pc = "rekey_night"
    /\ LET day_metrics == Rekey(frame.day_metrics, NoNightPrefix)
       IN  frame' = [frame EXCEPT
                       !.day_metrics = day_metrics,
                       !.metrics = DictUpdate(@, day_metrics)]
    /\ pc' = "rekey_tag"
    /\ UNCHANGED <<op, args, ret>>

\* The tag loop under the caller's tag, and return metrics.
ComputeMetrics_RekeyTag ==
    /\ pc = "rekey_tag"
    /\ \E tag \in (IF ArgsGiven THEN {args.tag} ELSE Tags) :
          LET metrics == Rekey(frame.metrics, TagPrefix(tag))
          IN  /\ args' = [args EXCEPT !.tag = tag]
              /\ frame' = [frame EXCEPT !.metrics = metrics]
              /\ ret' = Return(metrics)
    /\ pc' = "done"
    /\ UNCHANGED op

\* The caller calls compute_metrics once more with the same arguments, the
\* objects it passed the first time as the first call left them; the first
\* record is kept aside.
ComputeMetrics_CallAgain ==
    /\ pc = "done" /\ op = "compute_metrics"
    /\ ret.kind = "return"
    /\ ~frame.again
    /\ args.thresholds \in RepeatedThresholds
    /\ frame' = [NoFrame EXCEPT !.first = ret.value, !.again = TRUE]
    /\ ret' = NoRet
    /\ pc' = "call"
    /\ UNCHANGED <<op, args>>

\* evaluation: metrics = compute_metrics(..., tag=..., filter_by_night=True)
\* has returned; the record is kept, and compute_metrics is called on the
\* same samples with predictions=zero_baseline(predictions) under the
\* other tag.
Evaluation_Metrics ==
    /\ pc = "done" /\ op = "evaluation"
    /\ ~frame.again
    /\ frame' = [NoFrame EXCEPT !.first = ret.value, !.again = TRUE]
    /\ args' = [args EXCEPT !.predictions = zero_baseline(@),
                            !.tag = args.baseline_tag]
    /\ ret' = NoRet
    /\ pc' = "call"
    /\ UNCHANGED op

\* evaluation: metrics.update(compute_metrics(predictions=baseline(...),
\* ..., tag=..., filter_by_night=True)), and return metrics.
Evaluation_Update ==
    /\ pc = "done" /\ op = "evaluation"
    /\ frame.again
    /\ frame' = [frame EXCEPT !.other = ret.value,
                              !.metrics = DictUpdate(frame.first, ret.value)]
    /\ ret' = Return(DictUpdate(frame.first, ret.value))
    /\ pc' = "merged"
    /\ UNCHANGED <<op, args>>

\* filter_night: numpy raises IndexError when the boolean mask, as long as
\* datetimes, is not as long as the array it indexes.
Run_filter_night ==
    /\ pc = "call" /\ op = "filter_night"
    /\ ret' = IF /\ ALen(args.predictions) = Len(args.datetimes)
                 /\ ALen(args.target) = Len(args.datetimes)
              THEN Return(filter_night(args.predictions, args.target,
                                       args.datetimes, args.solpos,
                                       args.sun_position_for_night))
              ELSE Raise("IndexError")
    /\ pc' = "done"
    /\ UNCHANGED <<op, args, frame>>

Run_zero_baseline ==
    /\ pc = "call" /\ op = "zero_baseline"
    /\ ret' = Return(zero_baseline(args.predictions))
    /\ pc' = "done"
    /\ UNCHANGED <<op, args, frame>>

Run_max_baseline ==
    /\ pc = "call" /\ op = "max_baseline"
    /\ ret' = Return(max_baseline(args.predictions, args.level))
    /\ pc' = "done"
    /\ UNCHANGED <<op, args, frame>>

Run_last_value_persistence ==
    /\ pc = "call" /\ op = "last_value_persistence"
    /\ ret' = Return(last_value_persistence(args.predictions, args.level))
    /\ pc' = "done"
    /\ UNCHANGED <<op, args, frame>>

Run_last_day_persistence ==
    /\ pc = "call" /\ op = "last_day_persistence"
    /\ ret' = last_day_persistence(args.predictions)
    /\ pc' = "done"
    /\ UNCHANGED <<op, args, frame>>

Next ==
    \/ Run_common_metrics
    \/ Run_compute_metrics_part_of_day
    \/ Run_compute_metrics_part_of_year
    \/ Run_compute_metrics_time_horizons
    \/ CountLargeErrors_Check
    \/ CountLargeErrors_Errors
    \/ CountLargeErrors_Loop
    \/ CountLargeErrors_Return
    \/ ComputeMetrics_Pass
    \/ ComputeMetrics_NightPass
    \/ ComputeMetrics_SkipNight
    \/ ComputeMetrics_RekeyNight
    \/ ComputeMetrics_RekeyTag
    \/ ComputeMetrics_CallAgain
    \/ Evaluation_Metrics
    \/ Evaluation_Update
    \/ Run_filter_night
    \/ Run_zero_baseline
    \/ Run_max_baseline
    \/ Run_last_value_persistence
    \/ Run_last_day_persistence

Spec == Init /\ [][Next]_vars

\* ------------------------------------------------------------- consistency

\* The stage-by-stage run of compute_metrics ends as the function does.
ComputeMetricsRunsAgree ==
    (op = "compute_metrics" /\ pc = "done") =>
        ret = compute_metrics(args.predictions, args.target, args.datetimes,
                              args.start_time, args.filter_by_night, args.tag,
                              args.thresholds, args.solpos,
                              args.sun_position_for_night)

\* The statement-by-statement run of count_large_errors ends as the
\* function count_large_errors used by compute_metrics does.
CountLargeErrorsRunsAgree ==
    (op = "count_large_errors" /\ pc = "done") =>
        ret = count_large_errors(args.predictions, args.target,
                                 args.threshold, args.sigma, Str(""))

\* ------------------------------------------------------------------ claims

ComputeMetricsReturned ==
    op = "compute_metrics" /\ pc = "done" /\ ret.kind = "return"

\* What follows the leading tag + "/" in a key.
AfterTag(key, tag) == SubSeq(key, Len(tag) + 1, Len(key))

\* Every key of the record starts with tag + "/", and every key of the
\* night-filtered pass (day_metrics holds them, under no_night/) is there as
\* tag/no_night/key, never as no_night/tag/key.
TagThenNoNight ==
    /\ \A key \in KeySet(ret.value) : StartsWithDir(key, args.tag)
    /\ args.filter_by_night =>
          \A nk \in KeySet(frame.day_metrics) :
             LET dk == Tail(nk)
                 good == StrCat(TagPrefix(args.tag), StrCat(NoNightPrefix, dk))
                 bad == StrCat(NoNightPrefix, StrCat(TagPrefix(args.tag), dk))
             IN  /\ StartsWithDir(nk, Str("no_night"))
                 /\ good \in KeySet(ret.value)
                 /\ bad # good => bad \notin KeySet(ret.value)

DeltaOf(i) == args.datetimes[i] - args.start_time[i]

\* C2 as claimed: when several samples share one (timestamp - start_time)
\* delta, the mae and rmse compute_metrics_time_horizons stores under that
\* delta's forecast_horizon_<minutes>_minutes/ keys are the kernel's
\* result over all the samples sharing the delta.
C2_AsClaimed ==
    (op = "compute_metrics_time_horizons" /\ pc = "done") =>
        \A i \in 1..Len(args.datetimes) :
           LET same == SelectSeq([j \in 1..Len(args.datetimes) |-> j - 1],
                                 LAMBDA j : DeltaOf(j + 1) = DeltaOf(i))
               slice == common_metrics(ATake(args.predictions, same),
                                       ATake(args.target, same),
                                       HorizonTag(DeltaOf(i))).value
           IN  Len(same) > 1 =>
                  \A k \in KeySet(slice) :
                     /\ DictHas(ret.value, k)
                     /\ DictGet(ret.value, k) = DictGet(slice, k)

DefaultLabels ==
    {DefaultHourSplit[i].k : i \in 1..Len(DefaultHourSplit)}
        \cup {DefaultYearSplit[i].k : i \in 1..Len(DefaultYearSplit)}

\* The forecast_horizon_<m>_minutes labels among a pass's keys: with the
\* default splits, the first segments of the two-segment keys that are no
\* bucket label.
HorizonLabels(d) ==
    {key[1] : key \in {k \in KeySet(d) : Len(k) = 2 /\ k[1] \notin DefaultLabels}}

\* Sample i (1-based) is kept by the night filter.
Retained(i) == args.solpos[args.datetimes[i]] > args.sun_position_for_night

\* C3 as claimed: in the night-filtered pass of compute_metrics every
\* forecast_horizon_<m>_minutes key comes from a retained sample's
\* timestamp and that sample's own start_time, so the pass's horizon labels
\* are among those of the unfiltered pass.
C3_AsClaimed ==
    (op = "compute_metrics" /\ pc = "rekey_night") =>
        /\ HorizonLabels(frame.day_metrics) \subseteq HorizonLabels(frame.metrics)
        /\ \A label \in HorizonLabels(frame.day_metrics) :
              \E i \in 1..Len(args.datetimes) :
                 Retained(i) /\ HorizonTag(DeltaOf(i))[1] = label

\* The pass over all samples has just ended, or the pass over the daytime
\* samples has: PassDict is what it built.
PassEnded == op = "compute_metrics" /\ pc \in {"night", "rekey_night"}

PassDict == IF pc = "night" THEN frame.metrics ELSE frame.day_metrics

\* The samples (1-based) the pass ran over.
PassSamples ==
    {i \in 1..Len(args.datetimes) : pc = "night" \/ Retained(i)}

\* The hour or the month of each sample of a direct segmenter call.
PartsOfCall ==
    [i \in 1..Len(args.datetimes) |->
        IF op = "compute_metrics_part_of_day"
        THEN HourOf(args.datetimes[i]) ELSE MonthOf(args.datetimes[i])]

\* The buckets (places in the split) that some sample falls in.
NonEmptyBuckets ==
    {b \in 1..Len(args.split) :
        \E i \in 1..Len(args.datetimes) : PartsOfCall[i] \in args.split[b].v}

SegmenterDone ==
    /\ op \in {"compute_metrics_part_of_day", "compute_metrics_part_of_year"}
    /\ pc = "done"

\* Within compute_metrics, whose passes use the default splits, a pass
\* holds <Label>/mae and <Label>/rmse exactly for the labels that
\* some sample of the pass falls in.
C4_InEachPass ==
    PassEnded =>
        \A m \in {"mae", "rmse"} :
           /\ \A b \in 1..Len(DefaultHourSplit) :
                 <<DefaultHourSplit[b].k, m>> \in KeySet(PassDict) <=>
                    \E i \in PassSamples :
                       HourOf(args.datetimes[i]) \in DefaultHourSplit[b].v
           /\ \A b \in 1..Len(DefaultYearSplit) :
                 <<DefaultYearSplit[b].k, m>> \in KeySet(PassDict) <=>
                    \E i \in PassSamples :
                       MonthOf(args.datetimes[i]) \in DefaultYearSplit[b].v

\* C4: the time-of-day and time-of-year segmenters emit <Label>/mae and
\* <Label>/rmse exactly for the labels whose selector set holds some
\* sample's hour (month): nothing for a bucket without samples, two keys
\* for each bucket with some; and so in each pass of compute_metrics.
C4_KeysIffBucketNonEmpty ==
    /\ C4_InEachPass
    /\ SegmenterDone =>
          /\ \A b \in 1..Len(args.split) :
                /\ <<args.split[b].k, "mae">> \in KeySet(ret.value)
                      <=> b \in NonEmptyBuckets
                /\ <<args.split[b].k, "rmse">> \in KeySet(ret.value)
                      <=> b \in NonEmptyBuckets
          /\ Len(ret.value) = 2 * Cardinality(NonEmptyBuckets)
          /\ \A key \in KeySet(ret.value) :
                \E b \in NonEmptyBuckets : key[1] = args.split[b].k

\* A segmenter has run on samples that fill some buckets and leave others
\* empty.
C4_Witness ==
    /\ SegmenterDone
    /\ NonEmptyBuckets # {}
    /\ NonEmptyBuckets # 1..Len(args.split)
    /\ Len(ret.value) = 2 * Cardinality(NonEmptyBuckets)

\* The large-error entries of a pass's dict (no prefix yet): its
\* one-segment keys but mae and rmse.
LargeErrorKeys(d) ==
    {k \in KeySet(d) : Len(k) = 1 /\ k[1] \notin {"mae", "rmse"}}

ThresholdKey(v) == <<"large_error_count_threshold_" \o ToString(v)>>

CountLargeErrorsDone == op = "count_large_errors" /\ pc = "done"

\* The samples of the call whose absolute error is above the threshold.
LargeErrorSamples ==
    {i \in 1..ALen(args.predictions) :
        Abs(args.predictions.data[i] - args.target.data[i]) > args.threshold.n}

\* C6: for a threshold >= 0 count_large_errors returns the number of
\* samples whose |predictions - target| is strictly above the threshold;
\* errors 500, 1500, 2500 with the threshold 1000 give 2.
C6_CountsStrictlyAbove ==
    /\ (/\ CountLargeErrorsDone
        /\ args.threshold.n >= 0 /\ args.sigma.n < 0
        /\ ALen(args.predictions) = ALen(args.target)) =>
          /\ ret.kind = "return"
          /\ Len(ret.value) = 1
          /\ ret.value[1].k = ThresholdKey(args.threshold.n)
          /\ ret.value[1].v = IntVal(Cardinality(LargeErrorSamples))
    /\ count_large_errors(Arr1(<<500, 1500, 2500>>), Arr1(<<0, 0, 0>>),
                          PyInt(1000), PyFloat(-1), Str("")).value
          = <<[k |-> ThresholdKey(1000), v |-> IntVal(2)]>>

\* A call with the threshold 1 has counted an error of 2 and passed over an
\* error of exactly 1.
C6_Witness ==
    /\ CountLargeErrorsDone
    /\ args.threshold = PyInt(1) /\ args.sigma.n < 0
    /\ args.predictions = Arr1(<<2, 1>>) /\ args.target = Arr1(<<0, 0>>)
    /\ ret.value[1].v = IntVal(1)

\* C7 as claimed: common_metrics raises whenever predictions and target
\* differ in length or are empty, also on a night-filtered subset without
\* samples (so that compute_metrics gets no further).
C7_AsClaimed ==
    /\ (/\ op = "common_metrics" /\ pc = "done"
        /\ \/ ALen(args.predictions) # ALen(args.target)
           \/ ALen(args.predictions) = 0) =>
          ret.kind = "raise"
    /\ (/\ op = "compute_metrics"
        /\ args.filter_by_night
        /\ \A i \in 1..Len(args.datetimes) : ~Retained(i)) =>
          /\ pc \notin {"rekey_night", "rekey_tag"}
          /\ pc = "done" => ret.kind = "raise"

\* C8 as claimed: a call of last_day_persistence raises; it returns
\* nothing to the caller.
C8_AsClaimed ==
    (op = "last_day_persistence" /\ pc = "done") =>
        /\ ret.kind = "raise"
        /\ ret.exc = "NotImplementedError"

\* C9: count_large_errors in sigma mode (sigma >= 0, threshold < 0) raises
\* NotImplementedError and returns no dict, and a call with both a
\* threshold and a sigma fails with another exception.
C9_SigmaNotImplemented ==
    CountLargeErrorsDone =>
        /\ (args.sigma.n >= 0 /\ args.threshold.n < 0) =>
              /\ ret = Raise("NotImplementedError")
              /\ ~frame.bound
        /\ (args.sigma.n >= 0 /\ args.threshold.n >= 0) =>
              ret.exc # "NotImplementedError"

C9_Witness ==
    /\ CountLargeErrorsDone
    /\ args.sigma = PyInt(2) /\ args.threshold = PyFloat(-1)
    /\ ret.kind = "raise"

\* C10: a call of count_large_errors with threshold >= 0 and sigma >= 0
\* ends in AssertionError before errors is computed or anything is counted,
\* and returns no dict.
C10_BothSetFailsFirst ==
    (/\ op = "count_large_errors"
     /\ args.threshold.n >= 0 /\ args.sigma.n >= 0) =>
        /\ pc \in {"call", "done"}
        /\ ~frame.bound
        /\ frame.large_error_count = 0
        /\ pc = "done" => ret = Raise("AssertionError")

C10_Witness ==
    /\ CountLargeErrorsDone
    /\ args.threshold = PyInt(1) /\ args.sigma = PyInt(2)
    /\ ret.kind = "raise"

\* ------------------------------------------------------------------ C11

FilterNightReturned ==
    pc = "done" /\ op = "filter_night" /\ ret.kind = "return"

\* The positions of the samples whose elevation is strictly above level.
AboveLevel(level) ==
    {i \in 1..Len(args.datetimes) : args.solpos[args.datetimes[i]] > level}

\* The j-th smallest element of a set of positions.
Nth(positions, j) ==
    CHOOSE i \in positions : Cardinality({k \in positions : k < i}) = j - 1

\* C11: filter_night returns exactly the samples whose elevation is strictly
\* above sun_position_for_night (elevation <= threshold is dropped), the
\* same selection from predictions, target and datetimes, so the three
\* results are equally long and index-aligned, in the original order.
C11_RetainsStrictlyAbove ==
    FilterNightReturned =>
        LET kept == AboveLevel(args.sun_position_for_night)
            out == ret.value
        IN  /\ ALen(out.predictions) = Cardinality(kept)
            /\ ALen(out.target) = Cardinality(kept)
            /\ Len(out.datetimes) = Cardinality(kept)
            /\ \A j \in 1..Cardinality(kept) :
                  /\ out.predictions.data[j] = args.predictions.data[Nth(kept, j)]
                  /\ out.target.data[j] = args.target.data[Nth(kept, j)]
                  /\ out.datetimes[j] = args.datetimes[Nth(kept, j)]

\* A call that drops a sample whose elevation equals the threshold and
\* keeps a later one.
C11_Witness ==
    /\ FilterNightReturned
    /\ Len(args.datetimes) = 2
    /\ args.solpos[args.datetimes[1]] = args.sun_position_for_night
    /\ Len(ret.value.datetimes) = 1
    /\ ret.value.predictions.data[1] = args.predictions.data[2]
    /\ args.predictions.data[1] # args.predictions.data[2]

\* ------------------------------------------------------------------ C12

\* The datetimes filter_night keeps of the call's samples at another level.
KeptAt(level) ==
    filter_night(args.predictions, args.target, args.datetimes, args.solpos,
                 level).datetimes

\* s is t with some elements left out.
RECURSIVE IsSubsequence(_, _)
IsSubsequence(s, t) ==
    IF s = <<>> THEN TRUE
    ELSE IF t = <<>> THEN FALSE
    ELSE IF Head(s) = Head(t) THEN IsSubsequence(Tail(s), Tail(t))
    ELSE IsSubsequence(s, Tail(t))

\* C12: for the same timestamps and site, the samples kept at a threshold b
\* are among those kept at any threshold a <= b, so raising the threshold
\* never keeps more samples.
C12_NightFilterMonotone ==
    FilterNightReturned =>
        \A a \in NightLevels :
            a <= args.sun_position_for_night =>
                /\ AboveLevel(args.sun_position_for_night) \subseteq AboveLevel(a)
                /\ IsSubsequence(ret.value.datetimes, KeptAt(a))
                /\ Len(ret.value.datetimes) <= Len(KeptAt(a))

\* A call at the higher threshold that keeps strictly fewer samples than
\* the lower threshold does.
C12_Witness ==
    /\ FilterNightReturned
    /\ args.sun_position_for_night = 0
    /\ Len(ret.value.datetimes) = 1
    /\ Len(KeptAt(-5)) = 2

\* ------------------------------------------------------------------ C13

\* A segmenter called without a split of the caller's has ended.
DefaultSegmenterDone ==
    /\ SegmenterDone
    /\ args.split = IF op = "compute_metrics_part_of_day"
                    THEN DefaultHourSplit ELSE DefaultYearSplit

\* The buckets of a split whose selector set holds part.
BucketsOf(split, part) == {b \in 1..Len(split) : part \in split[b].v}

\* How many samples of the call fall in each bucket of its split.
BucketCounts ==
    [b \in 1..Len(args.split) |-> Len(IndicesIn(PartsOfCall, args.split[b].v))]

\* C13: the default hour sets partition 0..23 and the default month sets
\* partition 1..12; so with the default splits every sample falls in
\* exactly one bucket of the axis, that bucket is in the record, and the
\* bucket sizes sum to the number of samples.
C13_DefaultSplitsPartition ==
    DefaultSegmenterDone =>
        /\ \A h \in 0..23 : Cardinality(BucketsOf(DefaultHourSplit, h)) = 1
        /\ \A m \in 1..12 : Cardinality(BucketsOf(DefaultYearSplit, m)) = 1
        /\ \A i \in 1..Len(args.datetimes) :
              /\ Cardinality(BucketsOf(args.split, PartsOfCall[i])) = 1
              /\ \A b \in BucketsOf(args.split, PartsOfCall[i]) :
                    <<args.split[b].k, "mae">> \in KeySet(ret.value)
        /\ SumSeq(BucketCounts) = Len(args.datetimes)
        /\ SumSeq([b \in 1..Len(args.split) |->
                      IF b \in NonEmptyBuckets THEN BucketCounts[b] ELSE 0])
              = Len(args.datetimes)

\* Two samples in two different default buckets of the day.
C13_Witness ==
    /\ DefaultSegmenterDone
    /\ op = "compute_metrics_part_of_day"
    /\ Len(args.datetimes) = 2
    /\ Cardinality(NonEmptyBuckets) = 2
    /\ Len(ret.value) = 4

\* ------------------------------------------------------------------ C14

\* common_metrics has returned from a call with predictions and target of
\* one shape.
KernelReturned ==
    /\ op = "common_metrics" /\ pc = "done" /\ ret.kind = "return"
    /\ Shape(args.predictions) = Shape(args.target)

IsScalar(v) == v.kind \in {"float", "nan"}

IsVectorOf(v, n) == v.kind = "ndarray" /\ Len(v.items) = n

KernelValue(name) == DictGet(ret.value, Str(name))

\* C14 as claimed: mae and rmse are scalars for 1-D inputs and for inputs
\* of shape (N, 1), and vectors of length D for inputs of shape (N, D) with
\* D > 1.
C14_AsClaimed ==
    KernelReturned =>
        \A name \in {"mae", "rmse"} :
            IF args.predictions.ndim = 2 /\ args.predictions.cols > 1
            THEN IsVectorOf(KernelValue(name), args.predictions.cols)
            ELSE IsScalar(KernelValue(name))

\* ------------------------------------------------------------------ C15

\* Two records of compute_metrics under two different tags have been
\* merged.
Merged == op = "evaluation" /\ pc = "merged"

\* C15 as claimed: records of compute_metrics under two different tags
\* share no key, so the update overwrites nothing and the merged record is
\* as large as the two together.
C15_AsClaimed ==
    (Merged /\ args.model_tag # args.baseline_tag) =>
        /\ KeySet(frame.first) \cap KeySet(frame.other) = {}
        /\ Len(ret.value) = Len(frame.first) + Len(frame.other)

\* "<a>/" is the start of "<b>/".
TagWithin(a, b) == Len(a) <= Len(b) /\ SubSeq(b, 1, Len(a)) = a

\* C15: records of compute_metrics under two tags neither of which, with
\* its "/", is the start of the other with its "/", share no key: the
\* update overwrites nothing, every entry of both is in the merged record
\* and the merged record is as large as the two together.
C15_UnnestedTagsDisjoint ==
    (/\ Merged
     /\ ~TagWithin(args.model_tag, args.baseline_tag)
     /\ ~TagWithin(args.baseline_tag, args.model_tag)) =>
        /\ KeySet(frame.first) \cap KeySet(frame.other) = {}
        /\ Len(ret.value) = Len(frame.first) + Len(frame.other)
        /\ \A key \in KeySet(frame.first) :
              DictGet(ret.value, key) = DictGet(frame.first, key)
        /\ \A key \in KeySet(frame.other) :
              DictGet(ret.value, key) = DictGet(frame.other, key)

\* The raw and the normalized record of some samples, merged.
C15_Witness ==
    /\ Merged
    /\ args.model_tag = <<"model", "kw">>
    /\ args.baseline_tag = <<"model", "normalized">>
    /\ Len(args.datetimes) = 2
    /\ Len(frame.first) > 0
    /\ Len(ret.value) = 2 * Len(frame.first)

\* ------------------------------------------------------------------ C16

\* common_metrics has returned from a call with non-empty predictions and
\* target of one shape.
NonEmptyKernelReturned == KernelReturned /\ ALen(args.predictions) > 0

\* The floats of a value of the record: itself, or its elements.
Floats(v) ==
    IF v.kind = "ndarray" THEN {v.items[j] : j \in 1..Len(v.items)} ELSE {v}

NotNegative(v) == \A x \in Floats(v) : x.kind = "float" /\ x.num >= 0

IsZero(v) == \A x \in Floats(v) : x.kind = "float" /\ x.num = 0

BaselineReturned ==
    /\ op \in {"zero_baseline", "max_baseline", "last_value_persistence"}
    /\ pc = "done"

\* The constant of the baseline called.
BaselineConstant == IF op = "zero_baseline" THEN 0 ELSE args.level

\* What the baseline called returns for other predictions.
BaselineOf(predictions) ==
    IF op = "zero_baseline" THEN zero_baseline(predictions)
    ELSE IF op = "max_baseline" THEN max_baseline(predictions, args.level)
    ELSE last_value_persistence(predictions, args.level)

\* C17: a baseline returns an array of the shape of predictions whose
\* every element is the baseline's constant (0, max_capacity, last_value),
\* whatever the values in predictions.
C17_BaselineIsConstantOfShape ==
    BaselineReturned =>
        /\ ret.kind = "return"
        /\ ret.value.ndim = args.predictions.ndim
        /\ Shape(ret.value) = Shape(args.predictions)
        /\ ret.value.exp = 0
        /\ \A i \in 1..Len(Flat(ret.value)) : Flat(ret.value)[i] = BaselineConstant
        /\ \A q \in Arrays(KernelVals) \cup Arrays2(MatrixVals) :
              Shape(q) = Shape(args.predictions) => BaselineOf(q) = ret.value

\* max_baseline of a (2, 2) array that is not all zeros, max_capacity 2.
C17_Witness ==
    /\ BaselineReturned
    /\ op = "max_baseline"
    /\ args.level = 2
    /\ Shape(args.predictions) = <<2, 2>>
    /\ args.predictions.data[1][1] = 1
    /\ ret.value.data = <<<<2, 2>>, <<2, 2>>>>

\* ------------------------------------------------------------------ C18

\* The second of two calls of compute_metrics with the same arguments has
\* ended.
SecondCallEnded == op = "compute_metrics" /\ pc = "done" /\ frame.again

OneToOne(before, after, prefix) ==
    /\ Len(after) = Len(before)
    /\ KeySet(after) = {StrCat(prefix, k) : k \in KeySet(before)}
    /\ \A k \in KeySet(before) :
          /\ DictHas(after, StrCat(prefix, k))
          /\ DictGet(after, StrCat(prefix, k)) = DictGet(before, k)

\* C19 as claimed: under the default segment definitions and any tag, the
\* no_night/ loop and the <tag>/ loop of compute_metrics are one-to-one:
\* after the loop there is one entry <prefix><k> for each key k present
\* before it, with k's value, and as many entries as before.
C19_AsClaimed ==
    [][ /\ (op = "compute_metrics" /\ pc = "rekey_night" /\ pc' = "rekey_tag") =>
              OneToOne(frame.day_metrics, frame'.day_metrics, NoNightPrefix)
        /\ (op = "compute_metrics" /\ pc = "rekey_tag" /\ pc' = "done") =>
              OneToOne(frame.metrics, frame'.metrics, TagPrefix(args'.tag)) ]_vars

\* ------------------------------------------------------------------ C20

\* The whole minutes of the full delta of sample i.
WholeMinutes(i) == DeltaOf(i) \div 60

\* The first segment of the key a label of m minutes makes.
MinutesLabel(m) == "forecast_horizon_" \o ToString(m) \o "_minutes"

\* The horizon labels in a record.
LabelsIn(d) == {k[1] : k \in KeySet(d)}

\* C20 as claimed: compute_metrics_time_horizons puts each sample under
\* forecast_horizon_<m>_minutes, m the whole minutes of the full delta
\* timestamp - start_time, so samples whose deltas differ in whole minutes
\* (a day or more apart, or negative, too) are under different keys.
C20_AsClaimed ==
    (op = "compute_metrics_time_horizons" /\ pc = "done") =>
        /\ \A i \in 1..Len(args.datetimes) :
              MinutesLabel(WholeMinutes(i)) \in LabelsIn(ret.value)
        /\ Cardinality(LabelsIn(ret.value))
              = Cardinality({WholeMinutes(i) : i \in 1..Len(args.datetimes)})
        /\ \A i, j \in 1..Len(args.datetimes) :
              WholeMinutes(i) # WholeMinutes(j) =>
                 HorizonTag(DeltaOf(i)) # HorizonTag(DeltaOf(j))

====
